---- MODULE Spec2Model ----
(***************************************************************************)
(* A model of package postdock (src/postdock.go): the command builders,    *)
(* the execution engine (run / dockerPull), the lifecycle operations       *)
(* (Create, Exists, Terminate, Drop, Import) and SchemaDump, run by        *)
(* callers against an external database engine.                            *)
(*                                                                         *)
(* A Go string is a sequence of tokens (a piece of text, a blank or a      *)
(* newline); a string that the code only compares with "" or copies into   *)
(* a command (host, user, password, image, network, database name) is a    *)
(* TLA+ string.  Every function of the package is a resumable body: given  *)
(* its frame and the value it was waiting for, it returns, calls another   *)
(* function, or asks script.Exec to run an external process.  One action   *)
(* runs one external process and the code that follows it up to the next.  *)
(***************************************************************************)
EXTENDS Integers, Sequences, FiniteSets, TLC

\* ------------------------------------------------------------------ bounds
\* Open client connections the engine may hold on one database.
MaxConns == 1
\* Lines of a schema dump handed to the dump filter.
MaxLines == 3

\* ------------------------------------------------------- program constants
DefaultPort == 5432

\* ------------------------------------------------------------------- text
Space == {" ", "\n", "\t"}

RECURSIVE TrimLeft(_)
TrimLeft(s) ==
  IF Len(s) > 0 /\ Head(s) \in Space THEN TrimLeft(Tail(s)) ELSE s

RECURSIVE TrimRight(_)
TrimRight(s) ==
  IF Len(s) > 0 /\ s[Len(s)] \in Space
    THEN TrimRight(SubSeq(s, 1, Len(s) - 1))
    ELSE s

\* strings.TrimSpace
TrimSpace(s) == TrimRight(TrimLeft(s))

\* strings.TrimPrefix
TrimPrefix(s, c) == IF Len(s) > 0 /\ Head(s) = c THEN Tail(s) ELSE s

Digits == <<"0", "1", "2", "3", "4", "5", "6", "7", "8", "9">>

\* The %d verb of fmt.Sprintf on a non-negative int.
RECURSIVE Itoa(_)
Itoa(n) ==
  IF n < 10 THEN <<Digits[n + 1]>>
  ELSE Itoa(n \div 10) \o <<Digits[(n % 10) + 1]>>

\* The %q verb of fmt.Sprintf: the argument, double-quoted.
Quote(x) == <<"\"", x, "\"">>
Unquote(q) == q[2]

\* strconv.ParseBool
TrueStrs == {"1", "t", "T", "TRUE", "true", "True"}
FalseStrs == {"0", "f", "F", "FALSE", "false", "False"}

\* ----------------------------------------------------------------- errors
Nil == [kind |-> "nil", msg |-> "", arg |-> <<>>, wraps |-> ""]
ErrorsNew(m) == [kind |-> "errors.New", msg |-> m, arg |-> <<>>, wraps |-> ""]
Errorf(f, a, w) == [kind |-> "fmt.Errorf", msg |-> f, arg |-> a, wraps |-> w]

ErrDBNotExist == ErrorsNew("db does not exists")

\* errors.Is(e, ErrDBNotExist)
IsErrDBNotExist(e) == e = ErrDBNotExist \/ e.wraps = ErrDBNotExist.msg

\* fmt.Errorf("raw error: %s", out)
RawError(out) == Errorf("raw error: %s", out, "")

\* The *strconv.NumError of a ParseBool that fails.
SyntaxError(s) ==
  [kind |-> "strconv.NumError", msg |-> "ParseBool", arg |-> s,
   wraps |-> "invalid syntax"]

ParseBool(s) ==
  IF Len(s) = 1 /\ s[1] \in TrueStrs THEN [val |-> TRUE, err |-> Nil]
  ELSE IF Len(s) = 1 /\ s[1] \in FalseStrs THEN [val |-> FALSE, err |-> Nil]
  ELSE [val |-> FALSE, err |-> SyntaxError(s)]

\* The error a pipe holds when its command exited with status n > 0, and the
\* one it holds when the command could not be started or its output not read.
ExitError(n) ==
  [kind |-> "exec.ExitError", msg |-> "exit status", arg |-> Itoa(n),
   wraps |-> ""]
PipeError ==
  [kind |-> "exec.Error", msg |-> "pipe", arg |-> <<>>, wraps |-> ""]

\* ---------------------------------------------------------------- options
Options(image, network, host, port, user, password) ==
  [DockerImage |-> image, DockerNetwork |-> network, dockerVolume |-> <<>>,
   DBName |-> "", DBHost |-> host, DBPort |-> port, DBUser |-> user,
   DBPassword |-> password, Debug |-> FALSE]

\* isValid without its check of the image.
isValid_NoImage(o, dbName) ==
  IF dbName = "" THEN ErrorsNew("postdock: required option: db name")
  ELSE IF o.DBHost = "" THEN ErrorsNew("postdock: required option: db host")
  ELSE IF o.DBUser = "" THEN ErrorsNew("postdock: required option: db user")
  ELSE IF o.DBPassword = ""
    THEN ErrorsNew("postdock: required option: db password")
  ELSE Nil

isValid(o, dbName) ==
  IF dbName = "" THEN ErrorsNew("postdock: required option: db name")
  ELSE IF o.DBHost = "" THEN ErrorsNew("postdock: required option: db host")
  ELSE IF o.DBUser = "" THEN ErrorsNew("postdock: required option: db user")
  ELSE IF o.DBPassword = ""
    THEN ErrorsNew("postdock: required option: db password")
  ELSE IF o.DockerImage = ""
    THEN ErrorsNew("postdock: required option: docker base image")
  ELSE Nil

\* ---------------------------------------------------------------- queries
\* A query is the sequence of its statements; a statement is the format
\* string of the source and the arguments fmt.Sprintf puts into it.
Stmt(tmpl, args) == [tmpl |-> tmpl, args |-> args]

UserExistsQ == "SELECT EXISTS ( SELECT usename FROM pg_catalog.pg_user WHERE usename = '%s');"
CreateUserQ == "CREATE USER %s WITH PASSWORD '%s';"
DbExistsQ == "SELECT EXISTS ( SELECT datname FROM pg_database WHERE datname = '%s')"
TerminateQ == "SELECT pg_terminate_backend(pid) FROM pg_stat_activity WHERE datname = '%s';"
DropQ == "DROP DATABASE IF EXISTS %s;"
\* The same statement without its condition, which the engine also knows.
PlainDropQ == "DROP DATABASE %s;"
CreateDbQ == "CREATE DATABASE %s ENCODING 'UTF-8' LC_COLLATE='en_US.UTF-8' LC_CTYPE='en_US.UTF-8' TEMPLATE template0 OWNER %s;"
GrantQs ==
  <<"GRANT ALL PRIVILEGES ON ALL TABLES IN SCHEMA public TO %s",
    "GRANT ALL PRIVILEGES ON ALL SEQUENCES IN SCHEMA public TO %s",
    "ALTER DEFAULT PRIVILEGES IN SCHEMA public GRANT ALL PRIVILEGES ON TABLES TO %s",
    "ALTER DEFAULT PRIVILEGES IN SCHEMA public GRANT ALL PRIVILEGES ON SEQUENCES TO %s">>

\* -------------------------------------------------------- command builder
psql(dbName, query, o) ==
  LET port == IF o.DBPort = 0 THEN DefaultPort ELSE o.DBPort
  IN <<"PGPASSWORD=", o.DBPassword, "psql", "-h", o.DBHost, "-d", dbName,
       "-U", o.DBUser, "-p", Itoa(port), "-v", "ON_ERROR_STOP=1",
       "-t", "-c", Quote(query)>>

\* psqlFile without the default of the port.
psqlFile_NoDefault(dbName, fileName, o) ==
  <<"PGPASSWORD=", o.DBPassword, "psql", "-h", o.DBHost, "-d", dbName,
    "-U", o.DBUser, "-p", Itoa(o.DBPort), "-v", "ON_ERROR_STOP=1",
    "--file=", fileName>>

psqlFile(dbName, fileName, o) ==
  LET port == IF o.DBPort = 0 THEN DefaultPort ELSE o.DBPort
  IN <<"PGPASSWORD=", o.DBPassword, "psql", "-h", o.DBHost, "-d", dbName,
       "-U", o.DBUser, "-p", Itoa(port), "-v", "ON_ERROR_STOP=1",
       "--file=", fileName>>

\* The command line SchemaDump builds.
pgDump(dbName, o) ==
  LET port == IF o.DBPort = 0 THEN DefaultPort ELSE o.DBPort
  IN <<"PGPASSWORD=", o.DBPassword, "pg_dump", "-h", o.DBHost,
       "-p", Itoa(port), "-U", o.DBUser, dbName, "--schema-only">>

\* The command lines run and dockerPull hand to script.Exec outside the
\* container.
dockerPullLine(imageName) == <<"docker", "pull", "-q", imageName>>

dockerRunLine(cmd, o) ==
  LET network == IF o.DockerNetwork # ""
                   THEN <<"--network=", o.DockerNetwork>> ELSE <<>>
      vol == IF o.dockerVolume # <<>>
               THEN <<"--volume", o.dockerVolume>> ELSE <<>>
  IN <<"docker", "run", "--rm", network, vol, o.DockerImage,
       "sh", "-c", Quote(cmd)>>

\* ------------------------------------------------------------------ paths
\* A path is the sequence of its separators "/" and its elements.
\* The working directory of the calling process.
Cwd == <<"/", "w">>

\* The index of the last separator of path, 0 when it has none.
LastSlash(path) ==
  LET at == {i \in 1..Len(path) : path[i] = "/"}
  IN IF at = {} THEN 0 ELSE CHOOSE i \in at : \A j \in at : j <= i

\* filepath.Split: the directory (with its final separator) and the file.
SplitDir(path) == SubSeq(path, 1, LastSlash(path))
SplitFile(path) == SubSeq(path, LastSlash(path) + 1, Len(path))

\* filepath.Clean on paths without ".." elements: no "." element, no
\* repeated separator and no final one, except for the root.
RECURSIVE Clean(_)
Clean(path) ==
  LET n == Len(path)
      dots == {i \in 1..n : /\ path[i] = "."
                            /\ (i = 1 \/ path[i - 1] = "/")
                            /\ (i = n \/ path[i + 1] = "/")}
      twice == {i \in 1..(n - 1) : path[i] = "/" /\ path[i + 1] = "/"}
  IN IF dots # {}
       THEN LET i == CHOOSE k \in dots : TRUE
            IN Clean(SubSeq(path, 1, i - 1) \o SubSeq(path, i + 2, n))
     ELSE IF twice # {}
       THEN LET i == CHOOSE k \in twice : TRUE
            IN Clean(SubSeq(path, 1, i) \o SubSeq(path, i + 2, n))
     ELSE IF n >= 2 /\ path[n] = "/" THEN Clean(SubSeq(path, 1, n - 1))
     ELSE path

\* filepath.Abs
Abs(path) ==
  IF Len(path) > 0 /\ path[1] = "/" THEN Clean(path)
  ELSE IF path = <<>> THEN Cwd
  ELSE Clean(Cwd \o <<"/">> \o path)

\* The mount Import derives from sqlFile: fmt.Sprintf("%s:/%s", absDir, dir).
\* The mount derived from sqlFile as it is given, without trimming it.
ImportVolume_NoTrim(sqlFile) ==
  LET dir == SplitDir(sqlFile)
  IN Abs(dir) \o <<":", "/">> \o dir

ImportVolume(sqlFile) ==
  LET file == TrimPrefix(TrimPrefix(sqlFile, "."), "/")
      dir == SplitDir(file)
  IN Abs(dir) \o <<":", "/">> \o dir

\* ------------------------------------------------------------ dump filter
\* A text is split into lines at "\n", as script's line scanner does: a
\* final line need not end in "\n", and an empty text has no line.
RECURSIVE Lines(_)
Lines(text) ==
  IF text = <<>> THEN <<>>
  ELSE LET at == {i \in 1..Len(text) : text[i] = "\n"}
           n == IF at = {} THEN Len(text) + 1
                ELSE CHOOSE i \in at : \A j \in at : i <= j
       IN <<SubSeq(text, 1, n - 1)>> \o Lines(SubSeq(text, n + 1, Len(text)))

\* Every line followed by "\n".
RECURSIVE Unlines(_)
Unlines(lines) ==
  IF lines = <<>> THEN <<>>
  ELSE Head(lines) \o <<"\n">> \o Unlines(Tail(lines))

\* Pipe.Reject(s): drop the lines that contain s.
Reject(lines, s) ==
  SelectSeq(lines, LAMBDA l : ~(\E i \in 1..Len(l) : l[i] = s))

\* Pipe.RejectRegexp(^s): drop the lines that start with s.
RejectRegexp(lines, s) ==
  SelectSeq(lines, LAMBDA l : ~(Len(l) > 0 /\ l[1] = s))

\* The Reject chain without its ^SET.
RejectAll_NoSet(lines) ==
  RejectRegexp(RejectRegexp(RejectRegexp(RejectRegexp(
    Reject(Reject(lines, "ALTER DEFAULT PRIVILEGES"), "OWNER TO"),
    "--"), "REVOKE"), "COMMENT ON"), "GRANT")

\* The Reject chain of SchemaDump.
RejectAll(lines) ==
  RejectRegexp(RejectRegexp(RejectRegexp(RejectRegexp(RejectRegexp(
    Reject(Reject(lines, "ALTER DEFAULT PRIVILEGES"), "OWNER TO"),
    "--"), "REVOKE"), "COMMENT ON"), "SET"), "GRANT")

\* cat -s: an empty line that follows an empty line is not printed.
RECURSIVE Squeeze(_, _)
Squeeze(lines, prevEmpty) ==
  IF lines = <<>> THEN <<>>
  ELSE IF Head(lines) = <<>> /\ prevEmpty THEN Squeeze(Tail(lines), TRUE)
  ELSE <<Head(lines)>> \o Squeeze(Tail(lines), Head(lines) = <<>>)

CatS(text) == Unlines(Squeeze(Lines(text), FALSE))

\* The lines SchemaDump keeps of the lines of a dump.
FilterLines(lines) == Lines(CatS(Unlines(RejectAll(lines))))

\* ------------------------------------------------------------------ state
\* The callers of the package.
Procs == {1, 2}
\* The databases of the engine besides the administrative one, postgres.
DbNames == {"d"}

VARIABLES
  inside,   \* whether /.dockerenv exists: the process runs in the container
  db,       \* the engine: each database's presence, content and privileges
  users,    \* the engine: the users that exist
  conns,    \* the engine: the open client connections of each database
  outfile,  \* the output file of SchemaDump: whether it exists, and its text
  active,   \* the callers that make calls
  copt,     \* each caller's Options value, passed by value into every call
  stack,    \* each caller's call stack: the frames of the calls in progress
  pending,  \* each caller's external process, waiting to be run
  cur,      \* each caller's current or last call: arguments, result, the
            \* processes it ran (trace) and the returns of its functions (steps)
  lastRun,  \* what run returned in each caller's last step, and from which pipe
  prev,     \* each caller's call before cur, where the specification keeps it
  born,     \* the databases that have ever been present
  input,    \* the arguments of a function applied on its own
  output    \* what the function made of them

vars ==
  <<inside, db, users, conns, outfile, active, copt, stack, pending, cur,
    lastRun, prev, born, input, output>>

\* ----------------------------------------------------------------- frames
\* The frame of a call: the function, where it is, its arguments and locals.
Frame(fn, dbName, file, cmd, o) ==
  [fn |-> fn, pc |-> "start", dbName |-> dbName, file |-> file, cmd |-> cmd,
   opt |-> o, out |-> <<>>]

\* What a function does next: return, call a function of the package, or
\* hand a command line (and its standard input) to script.Exec.
Return(out, err) == [act |-> "return", out |-> out, err |-> err]
CallFn(f, pc, callee) ==
  [act |-> "call", frame |-> [f EXCEPT !.pc = pc], callee |-> callee]
ExecReq(f, pc, line, stdin) ==
  [act |-> "exec", frame |-> [f EXCEPT !.pc = pc], line |-> line,
   stdin |-> stdin]

\* What a function resumes with: the (out, err) a callee returned, or the
\* pipe of a process that ran: ExitStatus(), and String()'s output and error.
Value(out, err) == [out |-> out, err |-> err, exit |-> 0]
NoValue == Value(<<>>, Nil)

NoPending == [line |-> <<>>, stdin |-> <<>>]

\* ------------------------------------------------------- execution engine
\* inDocker that never finds /.dockerenv.
inDocker_Never == FALSE

inDocker == inside

\* dockerPull that returns the error of the pipe as it is.
dockerPull_PipeError(f, r) ==
  CASE f.pc = "start" ->
         ExecReq(f, "ran", dockerPullLine(f.opt.DockerImage), <<>>)
    [] f.pc = "ran" ->
         IF r.exit > 0 THEN Return(<<>>, r.err) ELSE Return(<<>>, Nil)

dockerPull(f, r) ==
  CASE f.pc = "start" ->
         ExecReq(f, "ran", dockerPullLine(f.opt.DockerImage), <<>>)
    [] f.pc = "ran" ->
         IF r.exit > 0 THEN Return(<<>>, RawError(r.out))
         ELSE Return(<<>>, Nil)

\* run that returns the output as the process printed it.
run_NoTrim(f, r) ==
  CASE f.pc = "start" ->
         IF inDocker THEN ExecReq(f, "direct", f.cmd, <<>>)
         ELSE CallFn(f, "pulled", Frame("dockerPull", "", <<>>, <<>>, f.opt))
    [] f.pc = "pulled" ->
         IF r.err # Nil THEN Return(<<>>, r.err)
         ELSE ExecReq(f, "ran", dockerRunLine(f.cmd, f.opt), <<>>)
    [] f.pc \in {"direct", "ran"} ->
         IF r.exit > 0 THEN Return(<<>>, RawError(r.out))
         ELSE IF r.err # Nil THEN Return(<<>>, r.err)
         ELSE Return(r.out, Nil)

run(f, r) ==
  CASE f.pc = "start" ->
         IF inDocker THEN ExecReq(f, "direct", f.cmd, <<>>)
         ELSE CallFn(f, "pulled", Frame("dockerPull", "", <<>>, <<>>, f.opt))
    [] f.pc = "pulled" ->
         IF r.err # Nil THEN Return(<<>>, r.err)
         ELSE ExecReq(f, "ran", dockerRunLine(f.cmd, f.opt), <<>>)
    [] f.pc \in {"direct", "ran"} ->
         IF r.exit > 0 THEN Return(<<>>, RawError(r.out))
         ELSE IF r.err # Nil THEN Return(<<>>, r.err)
         ELSE Return(TrimSpace(r.out), Nil)

\* A call of run(cmd, o).
Run(cmd, o) == Frame("run", "", <<>>, cmd, o)

\* --------------------------------------------------- lifecycle operations
\* Exists that takes an output that is no boolean for false.
Exists_Lenient(f, r) ==
  CASE f.pc = "start" ->
         IF isValid(f.opt, f.dbName) # Nil
           THEN Return(<<>>, isValid(f.opt, f.dbName))
         ELSE CallFn(f, "ran",
                Run(psql("postgres", <<Stmt(DbExistsQ, <<f.dbName>>)>>, f.opt),
                    f.opt))
    [] f.pc = "ran" ->
         IF r.err # Nil THEN Return(<<>>, r.err)
         ELSE IF ParseBool(r.out).val THEN Return(<<>>, Nil)
         ELSE Return(<<>>, Errorf("%s: %w", <<f.dbName>>, ErrDBNotExist.msg))

Exists(f, r) ==
  CASE f.pc = "start" ->
         IF isValid(f.opt, f.dbName) # Nil
           THEN Return(<<>>, isValid(f.opt, f.dbName))
         ELSE CallFn(f, "ran",
                Run(psql("postgres", <<Stmt(DbExistsQ, <<f.dbName>>)>>, f.opt),
                    f.opt))
    [] f.pc = "ran" ->
         IF r.err # Nil THEN Return(<<>>, r.err)
         ELSE IF ParseBool(r.out).err # Nil
           THEN Return(<<>>, ParseBool(r.out).err)
         ELSE IF ParseBool(r.out).val THEN Return(<<>>, Nil)
         ELSE Return(<<>>, Errorf("%s: %w", <<f.dbName>>, ErrDBNotExist.msg))

\* Terminate that runs its statement once more when it failed.
Terminate_Retry(f, r) ==
  CASE f.pc = "start" ->
         IF isValid(f.opt, f.dbName) # Nil
           THEN Return(<<>>, isValid(f.opt, f.dbName))
         ELSE CallFn(f, "ran",
                Run(psql("postgres", <<Stmt(TerminateQ, <<f.dbName>>)>>, f.opt),
                    f.opt))
    [] f.pc = "ran" ->
         IF r.err # Nil
           THEN CallFn(f, "again",
                  Run(psql("postgres", <<Stmt(TerminateQ, <<f.dbName>>)>>,
                           f.opt),
                      f.opt))
         ELSE Return(<<>>, Nil)
    [] f.pc = "again" ->
         IF r.err # Nil THEN Return(<<>>, r.err) ELSE Return(<<>>, Nil)

Terminate(f, r) ==
  CASE f.pc = "start" ->
         IF isValid(f.opt, f.dbName) # Nil
           THEN Return(<<>>, isValid(f.opt, f.dbName))
         ELSE CallFn(f, "ran",
                Run(psql("postgres", <<Stmt(TerminateQ, <<f.dbName>>)>>, f.opt),
                    f.opt))
    [] f.pc = "ran" ->
         IF r.err # Nil THEN Return(<<>>, r.err) ELSE Return(<<>>, Nil)

\* The statement of Drop, without its condition.
DropStmt_Plain(dbName) == Stmt(PlainDropQ, <<dbName>>)

\* The statement of Drop.
DropStmt(dbName) == Stmt(DropQ, <<dbName>>)

\* Drop that goes on to its statement whatever Terminate returned.
Drop_IgnoreTerminate(f, r) ==
  CASE f.pc = "start" ->
         CallFn(f, "terminated", Frame("Terminate", f.dbName, <<>>, <<>>, f.opt))
    [] f.pc = "terminated" ->
         CallFn(f, "dropped",
           Run(psql("postgres", <<Stmt(DropQ, <<f.dbName>>)>>, f.opt), f.opt))
    [] f.pc = "dropped" ->
         IF r.err # Nil THEN Return(<<>>, r.err) ELSE Return(<<>>, Nil)

Drop(f, r) ==
  CASE f.pc = "start" ->
         CallFn(f, "terminated", Frame("Terminate", f.dbName, <<>>, <<>>, f.opt))
    [] f.pc = "terminated" ->
         IF r.err # Nil THEN Return(<<>>, r.err)
         ELSE CallFn(f, "dropped",
                Run(psql("postgres", <<DropStmt(f.dbName)>>, f.opt),
                    f.opt))
    [] f.pc = "dropped" ->
         IF r.err # Nil THEN Return(<<>>, r.err) ELSE Return(<<>>, Nil)

\* Create, after Exists returned err: whether it returns without creating.
SkipCreate_Never(err) == FALSE

SkipCreate(err) == err = Nil

\* Create from CREATE DATABASE on.
CreateDatabase(f) ==
  CallFn(f, "created",
    Run(psql("postgres",
             <<Stmt(CreateDbQ, <<f.dbName, f.opt.DBUser>>)>>, f.opt), f.opt))

Create(f, r) ==
  CASE f.pc = "start" ->
         IF isValid(f.opt, f.dbName) # Nil
           THEN Return(<<>>, isValid(f.opt, f.dbName))
         ELSE CallFn(f, "asked",
                Run(psql("postgres",
                         <<Stmt(UserExistsQ, <<f.opt.DBUser>>)>>, f.opt),
                    f.opt))
    [] f.pc = "asked" ->
         IF r.err # Nil THEN Return(<<>>, r.err)
         ELSE IF ParseBool(r.out).err # Nil
           THEN Return(<<>>, ParseBool(r.out).err)
         ELSE IF ~ParseBool(r.out).val
           THEN CallFn(f, "user",
                  Run(psql("postgres",
                           <<Stmt(CreateUserQ,
                                  <<f.opt.DBUser, f.opt.DBPassword>>)>>,
                           f.opt),
                      f.opt))
         ELSE CallFn(f, "exists",
                Frame("Exists", f.dbName, <<>>, <<>>, f.opt))
    [] f.pc = "user" ->
         IF r.err # Nil THEN Return(<<>>, r.err)
         ELSE CallFn(f, "exists",
                Frame("Exists", f.dbName, <<>>, <<>>, f.opt))
    [] f.pc = "exists" ->
         IF SkipCreate(r.err) THEN Return(<<>>, Nil) ELSE CreateDatabase(f)
    [] f.pc = "created" ->
         IF r.err # Nil THEN Return(<<>>, r.err)
         ELSE CallFn(f, "granted",
                Run(psql(f.dbName,
                         [i \in 1..Len(GrantQs) |->
                            Stmt(GrantQs[i], <<f.opt.DBUser>>)],
                         f.opt),
                    f.opt))
    [] f.pc = "granted" ->
         IF r.err # Nil THEN Return(<<>>, r.err) ELSE Return(<<>>, Nil)

\* Import that goes on to Create without Drop.
ImportDrop_Skipped(f) ==
  CallFn(f, "created", Frame("Create", f.dbName, <<>>, <<>>, f.opt))

\* The first call of Import: Drop.
ImportDrop(f) ==
  CallFn(f, "dropped", Frame("Drop", f.dbName, <<>>, <<>>, f.opt))

\* Import that returns after Create, without the restore.
Import_NoRestore(f, r) ==
  CASE f.pc = "start" ->
         IF f.file = <<>>
           THEN Return(<<>>, ErrorsNew("required option: sql file to import"))
         ELSE ImportDrop(f)
    [] f.pc = "dropped" ->
         IF r.err # Nil THEN Return(<<>>, r.err)
         ELSE CallFn(f, "created",
                Frame("Create", f.dbName, <<>>, <<>>, f.opt))
    [] f.pc = "created" ->
         IF r.err # Nil THEN Return(<<>>, r.err) ELSE Return(<<>>, Nil)

\* Import that sets the mount before it calls Drop and Create.
Import_MountFirst(f, r) ==
  CASE f.pc = "start" ->
         IF f.file = <<>>
           THEN Return(<<>>, ErrorsNew("required option: sql file to import"))
         ELSE LET o == [f.opt EXCEPT !.dockerVolume = ImportVolume(f.file)]
              IN CallFn([f EXCEPT !.opt = o], "dropped",
                   Frame("Drop", f.dbName, <<>>, <<>>, o))
    [] f.pc = "dropped" ->
         IF r.err # Nil THEN Return(<<>>, r.err)
         ELSE CallFn(f, "created",
                Frame("Create", f.dbName, <<>>, <<>>, f.opt))
    [] f.pc = "created" ->
         IF r.err # Nil THEN Return(<<>>, r.err)
         ELSE CallFn(f, "restored",
                Run(psqlFile(f.dbName, f.file, f.opt), f.opt))
    [] f.pc = "restored" ->
         IF r.err # Nil THEN Return(<<>>, r.err) ELSE Return(<<>>, Nil)

Import(f, r) ==
  CASE f.pc = "start" ->
         IF f.file = <<>>
           THEN Return(<<>>, ErrorsNew("required option: sql file to import"))
         ELSE ImportDrop(f)
    [] f.pc = "dropped" ->
         IF r.err # Nil THEN Return(<<>>, r.err)
         ELSE CallFn(f, "created",
                Frame("Create", f.dbName, <<>>, <<>>, f.opt))
    [] f.pc = "created" ->
         IF r.err # Nil THEN Return(<<>>, r.err)
         ELSE LET o == [f.opt EXCEPT !.dockerVolume = ImportVolume(f.file)]
              IN CallFn([f EXCEPT !.opt = o], "restored",
                   Run(psqlFile(f.dbName, f.file, o), o))
    [] f.pc = "restored" ->
         IF r.err # Nil THEN Return(<<>>, r.err) ELSE Return(<<>>, Nil)

\* ------------------------------------------------------------ schema dump
\* SchemaDump that returns the text with the error of a failed write.
SchemaDump_KeepText(f, r) ==
  CASE f.pc = "start" ->
         IF isValid(f.opt, f.dbName) # Nil
           THEN Return(<<>>, isValid(f.opt, f.dbName))
         ELSE CallFn(f, "dumped", Run(pgDump(f.dbName, f.opt), f.opt))
    [] f.pc = "dumped" ->
         IF r.err # Nil THEN Return(<<>>, r.err)
         ELSE ExecReq(f, "filtered", <<"cat", "-s">>,
                Unlines(RejectAll(Lines(r.out))))
    [] f.pc = "filtered" ->
         IF r.exit > 0 THEN Return(<<>>, RawError(r.out))
         ELSE IF r.err # Nil THEN Return(<<>>, r.err)
         ELSE IF f.file # <<>>
           THEN ExecReq([f EXCEPT !.out = r.out], "written",
                  <<"os.OpenFile", f.file>>, r.out)
         ELSE Return(r.out, Nil)
    [] f.pc = "written" -> Return(f.out, r.err)

SchemaDump(f, r) ==
  CASE f.pc = "start" ->
         IF isValid(f.opt, f.dbName) # Nil
           THEN Return(<<>>, isValid(f.opt, f.dbName))
         ELSE CallFn(f, "dumped", Run(pgDump(f.dbName, f.opt), f.opt))
    [] f.pc = "dumped" ->
         IF r.err # Nil THEN Return(<<>>, r.err)
         ELSE ExecReq(f, "filtered", <<"cat", "-s">>,
                Unlines(RejectAll(Lines(r.out))))
    [] f.pc = "filtered" ->
         IF r.exit > 0 THEN Return(<<>>, RawError(r.out))
         ELSE IF r.err # Nil THEN Return(<<>>, r.err)
         ELSE IF f.file # <<>>
           THEN ExecReq([f EXCEPT !.out = r.out], "written",
                  <<"os.OpenFile", f.file>>, r.out)
         ELSE Return(r.out, Nil)
    [] f.pc = "written" ->
         IF r.err # Nil THEN Return(<<>>, r.err) ELSE Return(f.out, Nil)

\* ----------------------------------------------------------------- driver
\* The body of the function of frame f, resumed with r.
Body(f, r) ==
  CASE f.fn = "run" -> run(f, r)
    [] f.fn = "dockerPull" -> dockerPull(f, r)
    [] f.fn = "Create" -> Create(f, r)
    [] f.fn = "Exists" -> Exists(f, r)
    [] f.fn = "Terminate" -> Terminate(f, r)
    [] f.fn = "Drop" -> Drop(f, r)
    [] f.fn = "Import" -> Import(f, r)
    [] f.fn = "SchemaDump" -> SchemaDump(f, r)

\* Run the code of a call stack from the value r on, until the code hands a
\* process to script.Exec or the outermost call returns.  rets collects the
\* returns met on the way, innermost first: the function that returned, the
\* command it was called with (for run) and what it returned.
RECURSIVE Advance(_, _, _)
Advance(stk, r, rets) ==
  IF stk = <<>>
    THEN [stack |-> <<>>, pending |-> NoPending, ret |-> r, rets |-> rets]
  ELSE LET top == stk[Len(stk)]
           rest == SubSeq(stk, 1, Len(stk) - 1)
           e == Body(top, r)
       IN CASE e.act = "return" ->
                 Advance(rest, Value(e.out, e.err),
                   rets \o <<[fn |-> top.fn, cmd |-> top.cmd, out |-> e.out,
                              err |-> e.err]>>)
            [] e.act = "call" ->
                 Advance(rest \o <<e.frame, e.callee>>, NoValue, rets)
            [] e.act = "exec" ->
                 [stack |-> rest \o <<e.frame>>,
                  pending |-> [line |-> e.line, stdin |-> e.stdin],
                  ret |-> NoValue, rets |-> rets]

\* ------------------------------------------------- the external processes
\* How a command line reaches a shell: by docker pull, docker run or directly.
Via(line) ==
  IF line[1] = "docker" /\ line[2] = "pull" THEN "pull"
  ELSE IF line[1] = "docker" /\ line[2] = "run" THEN "docker"
  ELSE "direct"

\* The command a line runs, and the network and mount it runs with.
Command(line) == IF Via(line) = "docker" THEN Unquote(line[9]) ELSE line
Network(line) ==
  IF Via(line) = "docker" /\ line[4] # <<>> THEN line[4][2] ELSE ""
Mount(line) ==
  IF Via(line) = "docker" /\ line[5] # <<>> THEN line[5][2] ELSE <<>>

\* The two sides of a mount host:container.
Colon(vol) == CHOOSE i \in 1..Len(vol) : vol[i] = ":"
MountHost(vol) == SubSeq(vol, 1, Colon(vol) - 1)
MountDir(vol) == SubSeq(vol, Colon(vol) + 1, Len(vol))

\* The files of the host, by content ("" for no such file).
HostFile(path) ==
  IF path = Cwd \o <<"/", "d", "/", "f">> THEN "new"
  ELSE IF path = Cwd \o <<"/", "f">> THEN "alt"
  ELSE ""

\* The content psql finds under path: on the host from the working
\* directory, in a container from / and through the mount.
FileSeen(line, path) ==
  IF Via(line) = "direct" THEN HostFile(Abs(path))
  ELSE LET vol == Mount(line)
           inC == Clean(<<"/">> \o path)
       IN IF vol # <<>> /\ Clean(SplitDir(inC)) = Clean(MountDir(vol))
            THEN HostFile(Clean(MountHost(vol) \o <<"/">> \o SplitFile(inC)))
          ELSE ""

DbAbsent == [present |-> FALSE, content |-> {}]
DbEmpty == [present |-> TRUE, content |-> {}]

BoolOut(b) == <<" ", IF b THEN "t" ELSE "f", "\n", "\n">>

\* The text pg_dump prints of a database.
DumpOf(d) ==
  <<"--", " ", "PostgreSQL database dump", "\n", "\n",
    "SET", " ", "statement_timeout = 0;", "\n", "\n", "\n">>
  \o (IF "old" \in d.content
        THEN <<"CREATE TABLE", " ", "old", "\n", "\n">> ELSE <<>>)
  \o (IF "new" \in d.content
        THEN <<"CREATE TABLE", " ", "new", "\n",
               "ALTER TABLE", " ", "new", " ", "OWNER TO", " ", "u", "\n",
               "\n">> ELSE <<>>)
  \o (IF "alt" \in d.content
        THEN <<"CREATE TABLE", " ", "alt", "\n", "\n">> ELSE <<>>)
  \o <<"GRANT", " ", "ALL", "\n">>

\* The tool and the (first) statement of a command.
Tool(c) == IF c[1] # "PGPASSWORD=" THEN c[1] ELSE c[3]
Statement(c) ==
  IF c[1] # "PGPASSWORD=" \/ c[3] = "pg_dump" THEN ""
  ELSE IF c[14] = "--file=" THEN "--file="
  ELSE Unquote(c[16])[1].tmpl

\* What a process does when nothing fails around it: whether it succeeds,
\* what it prints, and the engine after it.
Answer(can, out, d, u, c) ==
  [can |-> can, out |-> out, db |-> d, users |-> u, conns |-> c]
Fails == Answer(FALSE, <<"ERROR", "\n">>, db, users, conns)

Psql(dbName, st) ==
  CASE st.tmpl = UserExistsQ ->
         Answer(TRUE, BoolOut(st.args[1] \in users), db, users, conns)
    [] st.tmpl = CreateUserQ ->
         IF st.args[1] \in users THEN Fails
         ELSE Answer(TRUE, <<"CREATE ROLE", "\n">>, db,
                     users \cup {st.args[1]}, conns)
    [] st.tmpl = DbExistsQ ->
         Answer(TRUE, BoolOut(db[st.args[1]].present), db, users, conns)
    [] st.tmpl = TerminateQ ->
         Answer(TRUE,
                IF conns[st.args[1]] > 0 THEN BoolOut(TRUE) ELSE <<"\n">>,
                db, users, [conns EXCEPT ![st.args[1]] = 0])
    [] st.tmpl = DropQ ->
         IF conns[st.args[1]] > 0 THEN Fails
         ELSE Answer(TRUE, <<"DROP DATABASE", "\n">>,
                     [db EXCEPT ![st.args[1]] = DbAbsent], users, conns)
    [] st.tmpl = PlainDropQ ->
         IF conns[st.args[1]] > 0 \/ ~db[st.args[1]].present THEN Fails
         ELSE Answer(TRUE, <<"DROP DATABASE", "\n">>,
                     [db EXCEPT ![st.args[1]] = DbAbsent], users, conns)
    [] st.tmpl = CreateDbQ ->
         IF db[st.args[1]].present THEN Fails
         ELSE Answer(TRUE, <<"CREATE DATABASE", "\n">>,
                     [db EXCEPT ![st.args[1]] = DbEmpty], users, conns)
    [] st.tmpl = GrantQs[1] ->
         IF ~(dbName \in DbNames /\ db[dbName].present) THEN Fails
         ELSE Answer(TRUE, <<"GRANT", "\n">>, db, users, conns)

PsqlFile(line, dbName, path) ==
  IF ~db[dbName].present \/ FileSeen(line, path) = "" THEN Fails
  ELSE Answer(TRUE, <<"CREATE TABLE", "\n">>,
         [db EXCEPT ![dbName].content = @ \cup {FileSeen(line, path)}],
         users, conns)

PgDump(dbName) ==
  IF ~db[dbName].present THEN Fails
  ELSE Answer(TRUE, DumpOf(db[dbName]), db, users, conns)

Engine(req) ==
  LET line == req.line
      c == Command(line)
  IN IF Via(line) = "pull"
       THEN Answer(TRUE, <<line[4], "\n">>, db, users, conns)
     ELSE IF Via(line) = "docker" /\ Mount(line) # <<>>
             /\ Clean(MountDir(Mount(line))) = <<"/">>
       THEN Fails
     ELSE IF c[1] = "cat"
       THEN Answer(TRUE, CatS(req.stdin), db, users, conns)
     ELSE IF c[3] = "pg_dump" THEN PgDump(c[10])
     ELSE IF c[14] = "--file=" THEN PsqlFile(line, c[7], c[15])
     ELSE Psql(c[7], Unquote(c[16])[1])

\* What can go wrong around a process: it exits with a status > 0, it cannot
\* be started or its output cannot be read, or text that is not its own is
\* mixed into its output.
Faults == {"none", "exit", "pipe", "noise"}
FailOuts == {<<"boom", "\n">>}

\* The pipes script.Exec may return for a request under a fault.
Pipes(req, fault) ==
  LET a == Engine(req)
  IN CASE fault = "none" ->
            IF a.can THEN {[out |-> a.out, err |-> Nil, exit |-> 0]}
            ELSE {[out |-> a.out, err |-> ExitError(1), exit |-> 1]}
       [] fault = "exit" ->
            {[out |-> o, err |-> ExitError(1), exit |-> 1] : o \in FailOuts}
       [] fault = "pipe" -> {[out |-> <<>>, err |-> PipeError, exit |-> 0]}
       [] fault = "noise" ->
            IF a.can
              THEN {[out |-> <<"WARNING", "\n">> \o a.out, err |-> Nil,
                     exit |-> 0]}
            ELSE {}

\* Whether the process took effect on the engine.
TookEffect(req, fault) == fault \in {"none", "noise"} /\ Engine(req).can

\* ---------------------------------------------------------------- callers
\* The Options values callers hold: a valid one, one with a network, and
\* each value that lacks one required field.
BaseOptions == Options("img", "", "h", 0, "u", "pw")
OptionSet ==
  {BaseOptions,
   [BaseOptions EXCEPT !.DockerImage = ""],
   [BaseOptions EXCEPT !.DockerNetwork = "net"],
   [BaseOptions EXCEPT !.DBHost = ""],
   [BaseOptions EXCEPT !.DBUser = ""],
   [BaseOptions EXCEPT !.DBPassword = ""]}

\* The arguments callers pass.
DbArgs == {""} \cup DbNames
SqlFiles == {<<>>, <<"d", "/", "f">>, <<"/", "d", "/", "f">>, <<"f">>}
OutputFiles == {<<>>, <<"out.sql">>}

NoCall ==
  [op |-> "none", dbName |-> "", file |-> <<>>, startDb |-> db,
   startFile |-> outfile, trace |-> <<>>, steps |-> <<>>,
   last |-> [via |-> "none", tool |-> "", ok |-> TRUE], wrote |-> "no",
   nofault |-> TRUE, done |-> FALSE, out |-> <<>>, err |-> Nil]
NoRun ==
  [via |-> "none", pipe |-> NoValue, out |-> <<>>, err |-> Nil]

\* What the trace of a call keeps of a process: how it was run, with which
\* network and mount, and its tool and (first) statement.
Event(line) ==
  LET c == Command(line)
  IN [via |-> Via(line), net |-> Network(line), vol |-> Mount(line),
      tool |-> IF Via(line) = "pull" THEN "docker pull" ELSE Tool(c),
      stmt |-> IF Via(line) = "pull" THEN "" ELSE Statement(c)]

\* What a call keeps of the process it ran last: how it was run, its tool,
\* and whether it ended with exit status 0 and a readable output.
NoProc == [via |-> "none", tool |-> "", ok |-> TRUE]
Proc(line, pipe) ==
  [via |-> Via(line), tool |-> Event(line).tool,
   ok |-> pipe.exit = 0 /\ pipe.err = Nil]

\* How an output reads as a boolean: "t", "f", or "?" when it is none.
BoolVal(out) ==
  IF ParseBool(out).err # Nil THEN "?"
  ELSE IF ParseBool(out).val THEN "t" ELSE "f"

\* The returns of run among the returns of a step.
RunRets(rets) == SelectSeq(rets, LAMBDA x : x.fn = "run")

\* What the steps of a call keep of the returns of a step: the function, the
\* statement run was called with, how the output run returned for an
\* existence query reads as a boolean, the error returned, and the number
\* of processes the call had run by then.
Steps(rets, at) ==
  [i \in 1..Len(rets) |->
     [fn |-> rets[i].fn,
      stmt |-> IF rets[i].fn = "run" THEN Statement(rets[i].cmd) ELSE "",
      val |-> IF /\ rets[i].fn = "run" /\ rets[i].err = Nil
                 /\ Statement(rets[i].cmd) \in {UserExistsQ, DbExistsQ}
                THEN BoolVal(rets[i].out) ELSE "?",
      err |-> rets[i].err, at |-> at]]

\* What prev keeps of a call.
Summary(c) ==
  [op |-> c.op, dbName |-> c.dbName, startDb |-> c.startDb,
   nofault |-> c.nofault, err |-> c.err,
   stmts |-> [i \in 1..Len(c.trace) |-> c.trace[i].stmt]]
NoPrev == Summary(NoCall)

Idle(p) == stack[p] = <<>> /\ pending[p] = NoPending

\* Caller p calls op(dbName, file, copt[p]): the code runs up to its first
\* external process, or to its return when it has none.
Call(p, op, dbName, file, keep) ==
  /\ p \in active
  /\ Idle(p)
  /\ LET a == Advance(<<Frame(op, dbName, file, <<>>, copt[p])>>, NoValue, <<>>)
     IN /\ stack' = [stack EXCEPT ![p] = a.stack]
        /\ pending' = [pending EXCEPT ![p] = a.pending]
        /\ cur' = [cur EXCEPT ![p] =
                     [op |-> op, dbName |-> dbName, file |-> file,
                      startDb |-> db, startFile |-> outfile, trace |-> <<>>,
                      steps |-> Steps(a.rets, 0), last |-> NoProc,
                      wrote |-> "no",
                      nofault |-> TRUE,
                      done |-> a.stack = <<>>, out |-> a.ret.out,
                      err |-> a.ret.err]]
  /\ lastRun' = [lastRun EXCEPT ![p] = NoRun]
  /\ prev' = IF keep THEN [prev EXCEPT ![p] = Summary(cur[p])] ELSE prev
  /\ UNCHANGED <<inside, db, users, conns, outfile, active, copt, born,
                 input, output>>

CallCreate(p, keep) == \E d \in DbArgs : Call(p, "Create", d, <<>>, keep)
CallExists(p) == \E d \in DbArgs : Call(p, "Exists", d, <<>>, FALSE)
CallTerminate(p) == \E d \in DbArgs : Call(p, "Terminate", d, <<>>, FALSE)
CallDrop(p, keep) == \E d \in DbArgs : Call(p, "Drop", d, <<>>, keep)
CallImport(p, files) ==
  \E d \in DbArgs, f \in files : Call(p, "Import", d, f, FALSE)
CallSchemaDump(p, files) ==
  \E d \in DbArgs, f \in files : Call(p, "SchemaDump", d, f, FALSE)

\* script.Exec runs the process caller p waits for, under one of the given
\* faults, and p's code runs on from its pipe to the next process or to the
\* return of the call.
ScriptExec(p, faults) ==
  /\ pending[p].line # <<>>
  /\ pending[p].line[1] # "os.OpenFile"
  /\ \E fault \in faults : \E pipe \in Pipes(pending[p], fault) :
       LET req == pending[p]
           a == Advance(stack[p], pipe, <<>>)
           e == Engine(req)
           eff == TookEffect(req, fault)
       IN /\ db' = IF eff THEN e.db ELSE db
          /\ users' = IF eff THEN e.users ELSE users
          /\ conns' = IF eff THEN e.conns ELSE conns
          /\ born' = IF eff THEN born \cup {d \in DbNames : e.db[d].present}
                     ELSE born
          /\ stack' = [stack EXCEPT ![p] = a.stack]
          /\ pending' = [pending EXCEPT ![p] = a.pending]
          /\ cur' = [cur EXCEPT
                       ![p].trace = Append(@, Event(req.line)),
                       ![p].last = Proc(req.line, pipe),
                       ![p].steps = @ \o Steps(a.rets, Len(cur[p].trace) + 1),
                       ![p].nofault = @ /\ fault = "none",
                       ![p].done = a.stack = <<>>,
                       ![p].out = a.ret.out,
                       ![p].err = a.ret.err]
          /\ lastRun' =
               IF RunRets(a.rets) = <<>> THEN [lastRun EXCEPT ![p] = NoRun]
               ELSE [lastRun EXCEPT ![p] =
                       [via |-> Via(req.line), pipe |-> pipe,
                        out |-> RunRets(a.rets)[1].out,
                        err |-> RunRets(a.rets)[1].err]]
  /\ UNCHANGED <<inside, outfile, active, copt, prev, input, output>>

\* os.OpenFile with O_CREATE|O_TRUNC and WriteString, for SchemaDump: both
\* succeed, the open fails, or the write fails after the file was truncated.
WriteOutput(p) ==
  /\ pending[p].line # <<>>
  /\ pending[p].line[1] = "os.OpenFile"
  /\ \E how \in {"ok", "open", "write"} :
       LET r == IF how = "ok" THEN NoValue ELSE Value(<<>>, PipeError)
           a == Advance(stack[p], r, <<>>)
       IN /\ outfile' =
               CASE how = "ok" -> [exists |-> TRUE, text |-> pending[p].stdin]
                 [] how = "open" -> outfile
                 [] how = "write" -> [exists |-> TRUE, text |-> <<>>]
          /\ stack' = [stack EXCEPT ![p] = a.stack]
          /\ pending' = [pending EXCEPT ![p] = a.pending]
          /\ cur' = [cur EXCEPT
                       ![p].steps = @ \o Steps(a.rets, Len(cur[p].trace)),
                       ![p].wrote = how,
                       ![p].nofault = @ /\ how = "ok",
                       ![p].done = a.stack = <<>>,
                       ![p].out = a.ret.out,
                       ![p].err = a.ret.err]
  /\ UNCHANGED <<inside, db, users, conns, active, copt, lastRun, prev, born,
                 input, output>>

\* A client of the engine opens or closes a connection to a database.
ClientConnect ==
  /\ \E d \in DbNames :
       /\ db[d].present
       /\ conns[d] < MaxConns
       /\ conns' = [conns EXCEPT ![d] = @ + 1]
  /\ UNCHANGED <<inside, db, users, outfile, active, copt, stack, pending,
                 cur, lastRun, prev, born, input, output>>

ClientDisconnect ==
  /\ \E d \in DbNames :
       /\ conns[d] > 0
       /\ conns' = [conns EXCEPT ![d] = @ - 1]
  /\ UNCHANGED <<inside, db, users, outfile, active, copt, stack, pending,
                 cur, lastRun, prev, born, input, output>>

\* ---------------------------------------------------------- specification
DbOld == [present |-> TRUE, content |-> {"old"}]

InitWorld ==
  /\ inside \in BOOLEAN
  /\ db \in [DbNames -> {DbAbsent, DbOld}]
  /\ born = {d \in DbNames : db[d].present}
  /\ users \in SUBSET {"u"}
  /\ conns = [d \in DbNames |-> 0]
  /\ outfile = [exists |-> FALSE, text |-> <<>>]

InitCallers ==
  /\ stack = [p \in Procs |-> <<>>]
  /\ pending = [p \in Procs |-> NoPending]
  /\ cur = [p \in Procs |-> NoCall]
  /\ lastRun = [p \in Procs |-> NoRun]
  /\ prev = [p \in Procs |-> NoPrev]

\* One caller, with any Options value, makes any calls one after the other;
\* any process may fail.  SchemaDump writes no file.
Init ==
  /\ InitWorld
  /\ active = {1}
  /\ \E o \in OptionSet : copt = [p \in Procs |-> o]
  /\ InitCallers
  /\ input = <<>>
  /\ output = <<>>

Next ==
  \/ \E p \in Procs : CallCreate(p, FALSE)
  \/ \E p \in Procs : CallExists(p)
  \/ \E p \in Procs : CallTerminate(p)
  \/ \E p \in Procs : CallDrop(p, FALSE)
  \/ \E p \in Procs : CallImport(p, SqlFiles)
  \/ \E p \in Procs : CallSchemaDump(p, {<<>>})
  \/ \E p \in Procs : ScriptExec(p, Faults)
  \/ ClientConnect
  \/ ClientDisconnect

Spec == Init /\ [][Next]_vars

\* ----------------------------------------------------------------- claims
\* The configuration fields and the argument a call needs: none is empty.
Invalid(o, dbName) ==
  \/ dbName = ""
  \/ o.DBHost = ""
  \/ o.DBUser = ""
  \/ o.DBPassword = ""
  \/ o.DockerImage = ""

\* The call of caller p has returned.
Returned(p, op) == cur[p].op = op /\ cur[p].done

\* The number of processes of a trace that ran statement tmpl.
Count(stmts, tmpl) == Cardinality({i \in 1..Len(stmts) : stmts[i] = tmpl})

\* The content of the file a caller names by sqlFile: the file of that
\* path under the working directory.
Supplied(sqlFile) ==
  HostFile(Abs(TrimPrefix(TrimPrefix(sqlFile, "."), "/")))

\* C2: after an Import that returned no error, the database is present and
\* holds exactly the content of the supplied file and nothing of what it
\* held before, whatever its state was when Import was called.
C2_ImportReplaces ==
  \A p \in Procs :
    (Returned(p, "Import") /\ cur[p].err = Nil) =>
      /\ db[cur[p].dbName].present
      /\ db[cur[p].dbName].content = {Supplied(cur[p].file)}

\* An Import returned no error on a database that held other content.
C2_Witness ==
  \E p \in Procs :
    /\ Returned(p, "Import") /\ cur[p].err = Nil
    /\ cur[p].startDb[cur[p].dbName] = DbOld
    /\ db[cur[p].dbName].content = {"new"}

\* What Exists parsed: the output run returned in the last step of the call.
ExistsParsed(p) == ParseBool(lastRun[p].out)
ExistsAsked(p) == lastRun[p].via # "none" /\ lastRun[p].err = Nil

\* C3: Exists returns the ErrDBNotExist error, wrapping dbName, exactly when
\* the output of its query parses as false, returns nil exactly when it
\* parses as true, and returns another error when it is no boolean.
C3_ExistsResult ==
  \A p \in Procs :
    Returned(p, "Exists") =>
      /\ IsErrDBNotExist(cur[p].err) <=>
           (ExistsAsked(p) /\ ExistsParsed(p).err = Nil /\ ~ExistsParsed(p).val)
      /\ IsErrDBNotExist(cur[p].err) => cur[p].err.arg = <<cur[p].dbName>>
      /\ cur[p].err = Nil <=>
           (ExistsAsked(p) /\ ExistsParsed(p).err = Nil /\ ExistsParsed(p).val)
      /\ (ExistsAsked(p) /\ ExistsParsed(p).err # Nil) =>
           (cur[p].err # Nil /\ ~IsErrDBNotExist(cur[p].err))

\* Exists returned an error on an output that is no boolean.
C3_Witness ==
  \E p \in Procs :
    /\ Returned(p, "Exists")
    /\ ExistsAsked(p) /\ ExistsParsed(p).err # Nil
    /\ cur[p].err = ExistsParsed(p).err

\* C4: Drop of a database that was never created returns no error, when the
\* configuration is valid and no process fails around the engine.
C4_DropAbsent ==
  \A p \in Procs :
    (/\ Returned(p, "Drop")
     /\ ~Invalid(copt[p], cur[p].dbName)
     /\ cur[p].nofault
     /\ cur[p].dbName \notin born) =>
      (cur[p].err = Nil /\ ~db[cur[p].dbName].present)

\* Drop returned from its DROP statement on a database never created.
C4_Witness ==
  \E p \in Procs :
    /\ Returned(p, "Drop") /\ cur[p].nofault
    /\ ~Invalid(copt[p], cur[p].dbName)
    /\ cur[p].dbName \notin born
    /\ Count([i \in 1..Len(cur[p].trace) |-> cur[p].trace[i].stmt], DropQ) = 1

\* C5: an operation called with an empty database name, host, user,
\* password or image, or Import with an empty sqlFile, returns an error at
\* once: no process is run (no pull, no command) and the databases are as
\* they were.
C5_ValidationFirst ==
  \A p \in Procs :
    (/\ cur[p].op # "none"
     /\ \/ Invalid(copt[p], cur[p].dbName)
        \/ cur[p].op = "Import" /\ cur[p].file = <<>>) =>
      /\ cur[p].done
      /\ cur[p].err # Nil
      /\ cur[p].trace = <<>>
      /\ pending[p] = NoPending
      /\ db = cur[p].startDb

\* An Import was called with a sqlFile and a database name but no image.
C5_Witness ==
  \E p \in Procs :
    /\ Returned(p, "Import")
    /\ cur[p].file # <<>> /\ cur[p].dbName # ""
    /\ copt[p].DockerImage = ""
    /\ cur[p].err # Nil

\* C6 as claimed: whenever the command exits with status 0, run returns its
\* trimmed output and no error.
C6_Original ==
  \A p \in Procs :
    (lastRun[p].via \in {"direct", "docker"} /\ lastRun[p].pipe.exit = 0) =>
      (lastRun[p].out = TrimSpace(lastRun[p].pipe.out) /\ lastRun[p].err = Nil)

\* C6: in both branches, run returns the trimmed output and no error for a
\* command that exits with status 0 and whose output is read, no output and
\* the error of the pipe when the status is 0 and the pipe holds an error,
\* and no output and an error carrying the captured output when the status
\* is > 0; it never returns both an output and an error.
C6_RunResult ==
  \A p \in Procs :
    /\ lastRun[p].via \in {"direct", "docker"} =>
         LET pipe == lastRun[p].pipe
         IN /\ (pipe.exit = 0 /\ pipe.err = Nil) =>
                 /\ lastRun[p].out = TrimSpace(pipe.out)
                 /\ lastRun[p].err = Nil
            /\ (pipe.exit = 0 /\ pipe.err # Nil) =>
                 (lastRun[p].out = <<>> /\ lastRun[p].err = pipe.err)
            /\ pipe.exit > 0 =>
                 /\ lastRun[p].out = <<>>
                 /\ lastRun[p].err = RawError(pipe.out)
    /\ ~(lastRun[p].out # <<>> /\ lastRun[p].err # Nil)

\* run trimmed a printed output in a container, and returned it.
C6_Witness ==
  \E p \in Procs :
    /\ lastRun[p].via = "docker"
    /\ lastRun[p].pipe.exit = 0 /\ lastRun[p].pipe.err = Nil
    /\ lastRun[p].out # <<>>
    /\ lastRun[p].out # lastRun[p].pipe.out

\* C7: inside the container no image is pulled: every process of every call
\* is the command itself, run directly, without network or mount.
C7_NoPullInside ==
  inside =>
    \A p \in Procs : \A i \in 1..Len(cur[p].trace) :
      /\ cur[p].trace[i].via = "direct"
      /\ cur[p].trace[i].net = ""
      /\ cur[p].trace[i].vol = <<>>

\* An Import ran its restore inside the container.
C7_Witness ==
  \E p \in Procs :
    /\ inside
    /\ Returned(p, "Import")
    /\ cur[p].trace # <<>>
    /\ cur[p].trace[Len(cur[p].trace)].stmt = "--file="

\* Two errors of the same form: the same type and the same format.
SameForm(e1, e2) ==
  e1.kind = e2.kind /\ e1.msg = e2.msg /\ e1.wraps = e2.wraps

\* The error run returns when the image is pulled and the command then
\* exits with status 1, printing out.
CommandFailure(out) ==
  run([Run(<<>>, BaseOptions) EXCEPT !.pc = "ran"],
      [out |-> out, err |-> ExitError(1), exit |-> 1]).err

\* C8 as claimed: the error run returns for a failed pull never has the
\* form of the error it returns for a command that exits nonzero.
C8_Original ==
  \A p \in Procs :
    lastRun[p].via = "pull" =>
      \A o \in FailOuts : ~SameForm(lastRun[p].err, CommandFailure(o))

\* C8: outside the container a failed pull makes run return, without
\* running the command, the error "raw error: " followed by the output of
\* the pull: an error of the form of a command failure, which a caller can
\* tell from one only by the captured output.
C8_PullError ==
  \A p \in Procs :
    lastRun[p].via = "pull" =>
      /\ ~inside
      /\ lastRun[p].pipe.exit > 0
      /\ lastRun[p].out = <<>>
      /\ lastRun[p].err = RawError(lastRun[p].pipe.out)
      /\ \A o \in FailOuts : SameForm(lastRun[p].err, CommandFailure(o))
      /\ cur[p].trace[Len(cur[p].trace)].via = "pull"

\* The pull of a Terminate failed, and Terminate returned its error.
C8_Witness ==
  \E p \in Procs :
    /\ lastRun[p].via = "pull"
    /\ Returned(p, "Terminate")
    /\ cur[p].err = lastRun[p].err
    /\ cur[p].err # Nil

\* ------------------------------------------------ the steps of a call
\* The indices of the steps of caller p's call that are returns of fn.
StepsOf(p, fn) == {i \in 1..Len(cur[p].steps) : cur[p].steps[i].fn = fn}

\* The returns of run for statement stmt, and whether run was called for
\* it: it returned, or its frame is on the stack.
RunsOf(p, stmt) == {i \in StepsOf(p, "run") : cur[p].steps[i].stmt = stmt}
RunCalled(p, stmt) ==
  \/ RunsOf(p, stmt) # {}
  \/ \E k \in 1..Len(stack[p]) :
       stack[p][k].fn = "run" /\ Statement(stack[p][k].cmd) = stmt

\* The call of caller p returned the error of step i, and ran no process
\* after that step.
Aborted(p, i) ==
  /\ cur[p].done
  /\ cur[p].err = cur[p].steps[i].err
  /\ Len(cur[p].trace) = cur[p].steps[i].at
  /\ pending[p] = NoPending

\* The statements of the processes of a call, without the pulls.
Stmts(p) ==
  LET t == SelectSeq(cur[p].trace, LAMBDA e : e.via # "pull")
  IN [i \in 1..Len(t) |-> t[i].stmt]

\* C11 as claimed: in Create the error of any run, a user query or an Exists
\* result that is no boolean, and any error of Exists but not-found, ends
\* the call with that error and no later command; CREATE DATABASE is issued
\* only after Exists returned not-found.
C11_Original ==
  \A p \in Procs :
    cur[p].op = "Create" =>
      /\ \A i \in StepsOf(p, "run") :
           cur[p].steps[i].err # Nil => Aborted(p, i)
      /\ \A i \in RunsOf(p, UserExistsQ) :
           (cur[p].steps[i].err = Nil /\ cur[p].steps[i].val = "?") =>
             (cur[p].done /\ cur[p].err # Nil
              /\ Len(cur[p].trace) = cur[p].steps[i].at)
      /\ \A i \in StepsOf(p, "Exists") :
           (cur[p].steps[i].err # Nil
            /\ ~IsErrDBNotExist(cur[p].steps[i].err)) => Aborted(p, i)
      /\ RunCalled(p, CreateDbQ) =>
           \E i \in StepsOf(p, "Exists") :
             IsErrDBNotExist(cur[p].steps[i].err)

\* The place of a statement in the order of Import.
Rank(stmt) ==
  CASE stmt = TerminateQ -> 1
    [] stmt = DropQ -> 2
    [] stmt = UserExistsQ -> 3
    [] stmt = CreateUserQ -> 4
    [] stmt = DbExistsQ -> 5
    [] stmt = CreateDbQ -> 6
    [] stmt = GrantQs[1] -> 7
    [] stmt = "--file=" -> 8
    [] OTHER -> 0

\* The steps of Import: Terminate, Drop, Create and the run of the restore.
ImportSteps(p) ==
  StepsOf(p, "Terminate") \cup StepsOf(p, "Drop") \cup StepsOf(p, "Create")
    \cup RunsOf(p, "--file=")

\* A step of caller p's call, a return of fn, returned no error.
Succeeded(p, fn) == \E i \in StepsOf(p, fn) : cur[p].steps[i].err = Nil
Failed(p, fn) == \E i \in StepsOf(p, fn) : cur[p].steps[i].err # Nil

\* C12 as claimed: an Import whose Create fails after its Drop leaves the
\* database absent.
C12_Original ==
  \A p \in Procs :
    (Returned(p, "Import") /\ Succeeded(p, "Drop") /\ Failed(p, "Create")) =>
      ~db[cur[p].dbName].present

\* C12: Import issues its commands in the order Terminate, Drop, Create,
\* restore; the first of these steps to fail ends the call with its error
\* and no later command, the restore is issued only after Drop and Create
\* returned no error, and nothing is rolled back: after a failed Drop the
\* database is as it was, and after a Drop that succeeded it holds no
\* content, absent when CREATE DATABASE did not take effect and present
\* (and empty) when Create failed after it or the restore failed.
C12_ImportSteps ==
  \A p \in Procs :
    cur[p].op = "Import" =>
      /\ \A i, j \in 1..Len(Stmts(p)) :
           i < j => Rank(Stmts(p)[i]) < Rank(Stmts(p)[j])
      /\ \A i \in ImportSteps(p) : cur[p].steps[i].err # Nil => Aborted(p, i)
      /\ RunCalled(p, "--file=") =>
           (Succeeded(p, "Drop") /\ Succeeded(p, "Create"))
      /\ (cur[p].done /\ Failed(p, "Drop")) => db = cur[p].startDb
      /\ (cur[p].done /\ cur[p].err # Nil /\ Succeeded(p, "Drop")) =>
           /\ db[cur[p].dbName].content = {}
           /\ db[cur[p].dbName].present <=>
                \E i \in RunsOf(p, CreateDbQ) : cur[p].steps[i].err = Nil

\* An Import returned the error of its Create, which failed at its grant
\* after Drop succeeded, and the database is present.
C12_Witness ==
  \E p \in Procs :
    /\ Returned(p, "Import")
    /\ Succeeded(p, "Drop") /\ Failed(p, "Create")
    /\ cur[p].startDb[cur[p].dbName] = DbOld
    /\ db[cur[p].dbName] = DbEmpty
    /\ cur[p].err # Nil

\* C13: Drop issues its DROP DATABASE IF EXISTS only after Terminate ran
\* and returned no error; when Terminate fails, Drop returns the error of
\* Terminate, issues no DROP and leaves the databases as they were.
C13_TerminateFirst ==
  \A p \in Procs :
    cur[p].op = "Drop" =>
      /\ RunCalled(p, DropQ) => Succeeded(p, "Terminate")
      /\ \A i \in 1..Len(Stmts(p)) :
           Stmts(p)[i] = DropQ => (i = 2 /\ Stmts(p)[1] = TerminateQ)
      /\ \A i \in StepsOf(p, "Terminate") :
           cur[p].steps[i].err # Nil =>
             /\ Aborted(p, i)
             /\ ~RunCalled(p, DropQ)
             /\ db = cur[p].startDb

\* The statement of Terminate failed on a present database, and Drop
\* returned its error.
C13_Witness ==
  \E p \in Procs :
    /\ Returned(p, "Drop")
    /\ Failed(p, "Terminate")
    /\ Stmts(p) = <<TerminateQ>>
    /\ db[cur[p].dbName].present
    /\ cur[p].err # Nil

\* C14: when Exists reports the database present, Create returns no error,
\* issues neither CREATE DATABASE nor the grants and leaves the database as
\* it was; and Create issues CREATE USER exactly when the output of its
\* user query parsed as false.
C14_CreatePresent ==
  \A p \in Procs :
    cur[p].op = "Create" =>
      /\ Succeeded(p, "Exists") =>
           /\ cur[p].done /\ cur[p].err = Nil
           /\ ~RunCalled(p, CreateDbQ)
           /\ ~RunCalled(p, GrantQs[1])
           /\ db[cur[p].dbName] = cur[p].startDb[cur[p].dbName]
      /\ RunCalled(p, CreateUserQ) <=>
           \E i \in RunsOf(p, UserExistsQ) :
             cur[p].steps[i].err = Nil /\ cur[p].steps[i].val = "f"

\* Create created the user and returned on a database that was present.
C14_Witness ==
  \E p \in Procs :
    /\ Returned(p, "Create")
    /\ Succeeded(p, "Exists")
    /\ RunsOf(p, CreateUserQ) # {}
    /\ cur[p].startDb[cur[p].dbName] = DbOld
    /\ db[cur[p].dbName] = DbOld
    /\ cur[p].err = Nil

\* Whether a call of run is under way for caller p, and the numbers of
\* calls of run begun and of pulls begun in p's call.
RunUnderWay(p) == \E k \in 1..Len(stack[p]) : stack[p][k].fn = "run"
RunsBegun(p) ==
  Cardinality(StepsOf(p, "run")) + (IF RunUnderWay(p) THEN 1 ELSE 0)
PullsBegun(p) ==
  Cardinality({i \in 1..Len(cur[p].trace) : cur[p].trace[i].via = "pull"})
    + (IF pending[p].line # <<>> /\ Via(pending[p].line) = "pull"
         THEN 1 ELSE 0)

\* C17 as claimed: outside the container every docker run follows a pull,
\* run pulls once per call, and after a pull that did not succeed run
\* returns an error and launches no container.
C17_Original ==
  ~inside =>
    \A p \in Procs :
      /\ \A i \in 1..Len(cur[p].trace) :
           cur[p].trace[i].via = "docker" =>
             (i > 1 /\ cur[p].trace[i - 1].via = "pull")
      /\ PullsBegun(p) = RunsBegun(p)
      /\ (cur[p].last.via = "pull" /\ ~cur[p].last.ok) =>
           /\ pending[p].line = <<>> \/ Via(pending[p].line) # "docker"
           /\ lastRun[p].via = "pull" /\ lastRun[p].err # Nil

\* C18: a process runs with a mount only when it is the restore of an
\* Import, and then with the mount derived from sqlFile; every other
\* command of Import and of the other operations runs with none, and the
\* Options value of the caller never holds a mount.
C18_MountOnlyRestore ==
  \A p \in Procs :
    /\ copt[p].dockerVolume = <<>>
    /\ \A i \in 1..Len(cur[p].trace) :
         LET e == cur[p].trace[i]
         IN /\ e.vol # <<>> =>
                 /\ cur[p].op = "Import"
                 /\ e.stmt = "--file="
                 /\ e.vol = ImportVolume(cur[p].file)
            /\ (e.via = "docker" /\ e.stmt = "--file=") => e.vol # <<>>
    /\ \A k \in 1..Len(stack[p]) :
         stack[p][k].opt.dockerVolume # <<>> =>
           /\ stack[p][k].fn \in {"Import", "run", "dockerPull"}
           /\ stack[p][k].fn = "run" =>
                Statement(stack[p][k].cmd) = "--file="

\* An Import ran its restore with a mount, after commands without one.
C18_Witness ==
  \E p \in Procs :
    /\ Returned(p, "Import") /\ cur[p].err = Nil
    /\ Len(cur[p].trace) > 2
    /\ cur[p].trace[Len(cur[p].trace)].vol = ImportVolume(cur[p].file)
    /\ \A i \in 1..(Len(cur[p].trace) - 1) : cur[p].trace[i].vol = <<>>

\* The most commands an operation executes.
MaxCommands(op) ==
  CASE op \in {"Exists", "Terminate"} -> 1
    [] op = "Drop" -> 2
    [] op = "Create" -> 5
    [] op = "Import" -> 8
    [] OTHER -> 0

\* C19: a call of Exists or Terminate executes at most 1 command, of Drop
\* at most 2, of Create at most 5 and of Import at most 8, none of them
\* twice; until it returns it is waiting for one process, and it returns
\* once that process and the code after it are through.
C19_BoundedCommands ==
  \A p \in Procs :
    cur[p].op \in {"Exists", "Terminate", "Drop", "Create", "Import"} =>
      /\ RunsBegun(p) <= MaxCommands(cur[p].op)
      /\ \A i, j \in StepsOf(p, "run") :
           i # j => cur[p].steps[i].stmt # cur[p].steps[j].stmt
      /\ ~cur[p].done => (pending[p] # NoPending /\ stack[p] # <<>>)
      /\ cur[p].done => (pending[p] = NoPending /\ stack[p] = <<>>)

\* An Import returned after 8 commands.
C19_Witness ==
  \E p \in Procs :
    /\ Returned(p, "Import")
    /\ Cardinality(StepsOf(p, "run")) = 8
    /\ cur[p].err = Nil

\* One caller makes calls of Create and Drop one after the other, the call
\* before the current one is kept, and no process fails around the engine.
NextCreate ==
  \/ \E p \in Procs : CallCreate(p, TRUE)
  \/ \E p \in Procs : CallDrop(p, TRUE)
  \/ \E p \in Procs : ScriptExec(p, {"none"})
  \/ ClientConnect
  \/ ClientDisconnect

SpecCreate == Init /\ [][NextCreate]_vars

\* C1: of two calls of Create in succession on a database that is absent at
\* the first, with a valid configuration and no process failing, the first
\* issues CREATE DATABASE, once, and makes the database present, and the
\* second issues none and returns no error.
C1_CreateTwice ==
  \A p \in Procs :
    (/\ Returned(p, "Create") /\ cur[p].nofault
     /\ prev[p].op = "Create" /\ prev[p].nofault
     /\ prev[p].dbName = cur[p].dbName
     /\ ~Invalid(copt[p], cur[p].dbName)
     /\ ~prev[p].startDb[cur[p].dbName].present) =>
      /\ prev[p].err = Nil
      /\ Count(prev[p].stmts, CreateDbQ) = 1
      /\ cur[p].startDb[cur[p].dbName].present
      /\ cur[p].err = Nil
      /\ Count([i \in 1..Len(cur[p].trace) |-> cur[p].trace[i].stmt],
               CreateDbQ) = 0
      /\ db[cur[p].dbName] = cur[p].startDb[cur[p].dbName]

\* A second Create returned after a first that created the database.
C1_Witness ==
  \E p \in Procs :
    /\ Returned(p, "Create") /\ cur[p].nofault
    /\ prev[p].op = "Create" /\ prev[p].nofault
    /\ ~prev[p].startDb["d"].present
    /\ Count(prev[p].stmts, CreateDbQ) = 1
    /\ cur[p].dbName = "d" /\ prev[p].dbName = "d"
    /\ cur[p].err = Nil

\* ------------------------------------------------- the command builders
\* No caller, and an engine that nothing touches.
InitAlone ==
  /\ inside = FALSE
  /\ db = [d \in DbNames |-> DbAbsent]
  /\ born = {}
  /\ users = {}
  /\ conns = [d \in DbNames |-> 0]
  /\ outfile = [exists |-> FALSE, text |-> <<>>]
  /\ active = {}
  /\ copt = [p \in Procs |-> BaseOptions]
  /\ InitCallers

\* The ports, and the other arguments, the builders are applied to.
BuildPorts == {0, DefaultPort, DefaultPort + 1}
BuildOptions ==
  {Options("img", "", h, pt, u, "pw") :
     h \in {"h", "g"}, pt \in BuildPorts, u \in {"u", "v"}}
BuildInputs ==
  [o : BuildOptions, dbName : {"postgres", "d"},
   query : {<<Stmt(DbExistsQ, <<"d">>)>>, <<Stmt(DropQ, <<"d">>)>>},
   file : {<<"d", "/", "f">>, <<"f">>}]

NoOutput == [fn |-> "none"]

\* The options of the input with the port unset, and with the port 5432.
PortUnset == [input.o EXCEPT !.DBPort = 0]
PortSet == [input.o EXCEPT !.DBPort = DefaultPort]

Built(fn, given, unset, set) ==
  /\ output' = [fn |-> fn, given |-> given, unset |-> unset, set |-> set]
  /\ UNCHANGED <<inside, db, users, conns, outfile, active, copt, stack,
                 pending, cur, lastRun, prev, born, input>>

BuildPsql ==
  Built("psql", psql(input.dbName, input.query, input.o),
        psql(input.dbName, input.query, PortUnset),
        psql(input.dbName, input.query, PortSet))

BuildPsqlFile ==
  Built("psqlFile", psqlFile(input.dbName, input.file, input.o),
        psqlFile(input.dbName, input.file, PortUnset),
        psqlFile(input.dbName, input.file, PortSet))

BuildPgDump ==
  Built("pgDump", pgDump(input.dbName, input.o),
        pgDump(input.dbName, PortUnset), pgDump(input.dbName, PortSet))

InitBuild ==
  /\ InitAlone
  /\ input \in BuildInputs
  /\ output = NoOutput

NextBuild == BuildPsql \/ BuildPsqlFile \/ BuildPgDump

SpecBuild == InitBuild /\ [][NextBuild]_vars

\* C9: the inline-statement builder, the file-statement builder and the
\* schema-dump command each render the same command with the port unset (0)
\* as with the port 5432.
C9_PortDefault ==
  output.fn # "none" => output.unset = output.set

\* The file-statement builder rendered a command for a port that is set to
\* neither, which differs from the one for the port unset.
C9_Witness ==
  /\ output.fn = "psqlFile"
  /\ input.o.DBPort = DefaultPort + 1
  /\ output.unset = output.set
  /\ output.given # output.unset

\* ------------------------------------------------- the mount of Import
\* The directories and files the mount is derived for, and the three forms
\* of a path: d/f, /d/f and ./d/f.
MountDirs == {<<"d">>, <<"e">>, <<"d", "/", "e">>}
MountInputs ==
  [o : BuildOptions, dbName : {"postgres", "d"}, dir : MountDirs,
   name : {"f", "g"}]
Forms == {<<>>, <<"/">>, <<".", "/">>}
PathOf(form, dir, name) == form \o dir \o <<"/", name>>

\* What Import calls after Create returned no error: run, with the restore
\* command and the Options value that holds the mount.
Restore(dbName, sqlFile, o) ==
  Import([Frame("Import", dbName, sqlFile, <<>>, o) EXCEPT !.pc = "created"],
         NoValue).callee

DeriveMount ==
  /\ output.fn = "none"
  /\ output' =
       [fn |-> "mount",
        vol |-> [k \in Forms |->
                   Restore(input.dbName, PathOf(k, input.dir, input.name),
                           input.o).opt.dockerVolume],
        cmd |-> [k \in Forms |->
                   Restore(input.dbName, PathOf(k, input.dir, input.name),
                           input.o).cmd]]
  /\ UNCHANGED <<inside, db, users, conns, outfile, active, copt, stack,
                 pending, cur, lastRun, prev, born, input>>

InitMount ==
  /\ InitAlone
  /\ input \in MountInputs
  /\ output = NoOutput

NextMount == DeriveMount

SpecMount == InitMount /\ [][NextMount]_vars

\* C20: for the three forms d/f, /d/f and ./d/f of a path Import derives
\* the same mount, the directory d under the working directory on the host
\* side and /d/ on the container side, and hands each form as it was given
\* to the restore command.
C20_SameMount ==
  output.fn = "mount" =>
    \A k \in Forms :
      /\ output.vol[k] =
           Cwd \o <<"/">> \o input.dir \o <<":", "/">> \o input.dir \o <<"/">>
      /\ output.cmd[k] =
           psqlFile(input.dbName, PathOf(k, input.dir, input.name), input.o)
      /\ output.cmd[k][15] = PathOf(k, input.dir, input.name)

\* The mount of ./d/f is /w/d:/d/, and the restore command reads ./d/f.
C20_Witness ==
  /\ output.fn = "mount"
  /\ input.dir = <<"d">> /\ input.name = "f"
  /\ output.vol[<<".", "/">>] = <<"/", "w", "/", "d", ":", "/", "d", "/">>
  /\ output.cmd[<<".", "/">>][15] = <<".", "/", "d", "/", "f">>

\* --------------------------------------------------------- the dump filter
\* The lines the filter is applied to.
LineSet ==
  {<<>>, <<"x">>, <<"--", " ", "x">>, <<"x", " ", "--">>, <<"GRANT", " ", "x">>,
   <<"SET">>, <<" ", "SET">>, <<"REVOKE", " ", "x">>, <<"COMMENT ON", " ", "x">>,
   <<"x", " ", "OWNER TO", " ", "y">>, <<"ALTER DEFAULT PRIVILEGES">>}
Example ==
  <<<<"--", " ", "comment">>, <<"GRANT", " ", "x">>, <<"CREATE TABLE t();">>,
    <<>>, <<>>, <<"SET", " ", "x=y;">>>>
DumpInputs == UNION {[1..n -> LineSet] : n \in 0..MaxLines} \cup {Example}

ApplyFilter ==
  /\ output.fn = "none"
  /\ output' = [fn |-> "filter", lines |-> FilterLines(input)]
  /\ UNCHANGED <<inside, db, users, conns, outfile, active, copt, stack,
                 pending, cur, lastRun, prev, born, input>>

InitFilter ==
  /\ InitAlone
  /\ input \in DumpInputs
  /\ output = NoOutput

NextFilter == ApplyFilter

SpecFilter == InitFilter /\ [][NextFilter]_vars

\* The lines the filter has to remove.
Removed(l) ==
  \/ \E i \in 1..Len(l) : l[i] \in {"ALTER DEFAULT PRIVILEGES", "OWNER TO"}
  \/ Len(l) > 0 /\ l[1] \in {"--", "REVOKE", "COMMENT ON", "SET", "GRANT"}

\* The elements of seq at the indices in at, in their order.
Pick(seq, at) ==
  [j \in 1..Cardinality(at) |->
     seq[CHOOSE i \in at : Cardinality({k \in at : k <= i}) = j]]

\* lines without the blank lines that follow a blank line.
Collapsed(lines) ==
  Pick(lines, {i \in 1..Len(lines) :
                 ~(lines[i] = <<>> /\ i > 1 /\ lines[i - 1] = <<>>)})

\* C10: the filter removes every line that contains ALTER DEFAULT
\* PRIVILEGES or OWNER TO or starts with --, REVOKE, COMMENT ON, SET or
\* GRANT, keeps the other lines in their order, and then leaves one blank
\* line of every run of blank lines; it makes the two lines "CREATE TABLE
\* t();" and "" of the six lines of the example.
C10_DumpFilter ==
  output.fn = "filter" =>
    /\ output.lines =
         Collapsed(Pick(input, {i \in 1..Len(input) : ~Removed(input[i])}))
    /\ input = Example => output.lines = <<<<"CREATE TABLE t();">>, <<>>>>

\* The filter made one blank line of two that a removed line separated.
C10_Witness ==
  /\ output.fn = "filter"
  /\ input = <<<<>>, <<"SET">>, <<>>>>
  /\ output.lines = <<<<>>>>

\* -------------------------------------------------- the output file
\* One caller makes calls of SchemaDump with and without an output file,
\* on an output file that exists or not; any process, the opening of the
\* file and the writing to it may fail.
PriorFile == [exists |-> TRUE, text |-> <<"prior", "\n">>]

InitDump ==
  /\ inside \in BOOLEAN
  /\ db \in [DbNames -> {DbAbsent, DbOld, [DbEmpty EXCEPT !.content = {"new"}]}]
  /\ born = {d \in DbNames : db[d].present}
  /\ users = {"u"}
  /\ conns = [d \in DbNames |-> 0]
  /\ outfile \in {[exists |-> FALSE, text |-> <<>>], PriorFile}
  /\ active = {1}
  /\ \E o \in {BaseOptions, [BaseOptions EXCEPT !.DBHost = ""]} :
       copt = [p \in Procs |-> o]
  /\ InitCallers
  /\ input = <<>>
  /\ output = <<>>

NextDump ==
  \/ \E p \in Procs : CallSchemaDump(p, OutputFiles)
  \/ \E p \in Procs : ScriptExec(p, Faults)
  \/ \E p \in Procs : WriteOutput(p)

SpecDump == InitDump /\ [][NextDump]_vars

\* The text SchemaDump has to make of the text pg_dump prints.
Filtered(text) ==
  LET lines == Lines(TrimSpace(text))
  IN Unlines(Collapsed(Pick(lines, {i \in 1..Len(lines) :
                                      ~Removed(lines[i])})))

\* The dump and the filter of caller p's call succeeded.
StagesDone(p) == cur[p].last.tool = "cat" /\ cur[p].last.ok

\* C16: SchemaDump returns no text with every error, and an error whenever
\* the validation, the dump command, the filter or the writing of the file
\* fails; otherwise it returns the filtered text and no error.  It opens
\* the output file exactly when outputFile is not empty and the dump and the
\* filter succeeded; the file then holds exactly the returned text when the
\* call returns no error, and a call that does not come to open it leaves
\* the file as it was.
C16_DumpResult ==
  \A p \in Procs :
    cur[p].op = "SchemaDump" =>
      /\ (cur[p].done /\ cur[p].err # Nil) => cur[p].out = <<>>
      /\ cur[p].done =>
           (cur[p].err # Nil <=>
              \/ Invalid(copt[p], cur[p].dbName)
              \/ Failed(p, "run")
              \/ cur[p].last.tool = "cat" /\ ~cur[p].last.ok
              \/ cur[p].wrote \in {"open", "write"})
      /\ (cur[p].done /\ cur[p].err = Nil /\ cur[p].nofault) =>
           cur[p].out = Filtered(DumpOf(db[cur[p].dbName]))
      /\ cur[p].wrote # "no" => (cur[p].file # <<>> /\ StagesDone(p))
      /\ (cur[p].done /\ cur[p].file # <<>> /\ StagesDone(p)) =>
           cur[p].wrote # "no"
      /\ cur[p].wrote \in {"no", "open"} => outfile = cur[p].startFile
      /\ (cur[p].done /\ cur[p].err = Nil /\ cur[p].file # <<>>) =>
           outfile = [exists |-> TRUE, text |-> cur[p].out]

\* SchemaDump wrote the filtered text of a dump over a file that existed,
\* and returned it.
C16_Witness ==
  \E p \in Procs :
    /\ Returned(p, "SchemaDump") /\ cur[p].err = Nil /\ cur[p].nofault
    /\ cur[p].file # <<>>
    /\ cur[p].startFile = PriorFile
    /\ cur[p].wrote = "ok"
    /\ outfile.text = Filtered(DumpOf(db[cur[p].dbName]))
    /\ outfile.text # PriorFile.text
    /\ outfile.text # <<>>

\* ------------------------------------------------------- two callers
\* Caller 1 calls Import and Exists on database d, one after the other,
\* while caller 2 calls Exists on d; no process fails, and of every caller
\* the call before the current one is kept.
InitShared ==
  /\ inside \in BOOLEAN
  /\ db = [d \in DbNames |-> DbOld]
  /\ born = DbNames
  /\ users \in SUBSET {"u"}
  /\ conns = [d \in DbNames |-> 0]
  /\ outfile = [exists |-> FALSE, text |-> <<>>]
  /\ active = Procs
  /\ copt = [p \in Procs |-> BaseOptions]
  /\ InitCallers
  /\ input = <<>>
  /\ output = <<>>

WriterImport == Call(1, "Import", "d", <<"d", "/", "f">>, TRUE)
WriterExists == Call(1, "Exists", "d", <<>>, TRUE)
ReaderExists == Call(2, "Exists", "d", <<>>, TRUE)

NextShared ==
  \/ WriterImport
  \/ WriterExists
  \/ ReaderExists
  \/ \E p \in Procs : ScriptExec(p, {"none"})

SpecShared == InitShared /\ [][NextShared]_vars

\* What the only writer sees: after an Import that returned no error, and
\* at its next Exists, the database is present with the content of the file.
WriterSees ==
  /\ (Returned(1, "Import") /\ cur[1].err = Nil) =>
       db["d"] = [present |-> TRUE, content |-> {"new"}]
  /\ (Returned(1, "Exists") /\ prev[1].op = "Import" /\ prev[1].err = Nil) =>
       /\ cur[1].err = Nil
       /\ db["d"] = [present |-> TRUE, content |-> {"new"}]

\* A step in which the Exists of the second caller returns not-found is
\* taken while an Import of the first is under way, after its Drop.
ReaderSees ==
  (/\ cur[2].op = "Exists" /\ ~cur[2].done
   /\ cur'[2].done /\ cur'[2].err # Nil) =>
    /\ IsErrDBNotExist(cur'[2].err)
    /\ cur[1].op = "Import" /\ ~cur[1].done
    /\ Succeeded(1, "Drop")
    /\ ~db["d"].present

\* C15: nothing isolates the Exists of a second caller from the Import of
\* a first on the same database (the witness is a second caller that saw
\* not-found and then present-and-empty during one Import); the second
\* caller sees not-found only while an Import of the first is between its
\* Drop and its Create, and the first caller, the only writer, sees after
\* its own Import returned no error the database present, with the content
\* of the file.
C15_SingleWriter == []WriterSees /\ [][ReaderSees]_vars

\* During one Import of the first caller on a database that was present,
\* the second caller's Exists returned not-found, and its next Exists,
\* called after the Drop, returned present while the database is still
\* empty and the Import has not returned.
C15_Witness ==
  /\ cur[1].op = "Import" /\ ~cur[1].done
  /\ cur[1].startDb["d"] = DbOld
  /\ prev[2].op = "Exists" /\ IsErrDBNotExist(prev[2].err)
  /\ Returned(2, "Exists") /\ cur[2].err = Nil
  /\ cur[2].startDb["d"] # DbOld
  /\ db["d"] = DbEmpty

====
